---- MODULE Spec2Model ----
(***************************************************************************)
(* Model of login.py: the paginated fetchers (fetch_users, fetch_groups,   *)
(* fetch_group_members), the join and output step (save_to_json) and the   *)
(* top-level sequence (main); of setup.py: get_csrf_token, create_group,   *)
(* invite_user, add_user_to_group and main; and of setup2.py: main with    *)
(* AtlassianSetup.create_groups and AtlassianSetup.invite_users.           *)
(*                                                                         *)
(* Python dicts are functions whose domain is the set of keys present;     *)
(* dict.get(k) is Get(d, k), which yields None for an absent key.          *)
(***************************************************************************)
EXTENDS Integers, Sequences, FiniteSets, TLC

VARIABLES
    pc,                  \* position of the single thread of control
    entry,               \* the function this run called first
    srv,                 \* the server the requests are answered by
    requests,            \* every request issued so far, in order
    next_url,            \* fetch_users: local next_url
    all_users,           \* fetch_users: local all_users
    user_pages,          \* fetch_users: the responses received, in order
    g_start_index,       \* fetch_groups: local start_index
    groups_on_page,      \* fetch_groups: local groups_on_page
    gidx,                \* fetch_groups: position of the for loop in groups_on_page
    all_groups,          \* fetch_groups: local all_groups
    group_pages,         \* fetch_groups: the pages received, in order
    m_group_id,          \* fetch_group_members: parameter group_id
    m_start_index,       \* fetch_group_members: local start_index
    all_members,         \* fetch_group_members: local all_members
    member_pages,        \* fetch_group_members: the pages received by this call
    users_data,          \* save_to_json: parameter users_data
    groups_data,         \* save_to_json: parameter groups_data
    user_to_groups_map,  \* save_to_json: local user_to_groups_map
    gi,                  \* save_to_json: position of the outer loop (group)
    mi,                  \* save_to_json: position of the inner loop (member)
    users_file,          \* content of users.json
    groups_file,         \* content of groups.json
    events,              \* main: what the run did, in order
    exc,                 \* main: the exception being raised, or None
    cookies,             \* setup.py: the cookies of the browser context
    csrf_token,          \* setup.py main: local csrf_token
    group_id_map,        \* setup.py main: local group_id_map
    s_gi,                \* setup.py main: position in GROUPS_TO_CREATE
    s_ui,                \* setup.py main: position in USERS_TO_INVITE
    user_id,             \* setup.py main: local user_id
    calls,               \* setup.py: the API helpers called so far, in order
    env,                 \* setup2.py main: the environment variables that are set
    item,                \* setup2.py: position in NEW_GROUPS or NEW_USERS
    outcomes             \* setup2.py: how each item handled so far ended

fetchVars == <<srv, requests, next_url, all_users, user_pages, g_start_index,
               groups_on_page, gidx, all_groups, group_pages, m_group_id,
               m_start_index, all_members, member_pages>>
joinVars == <<users_data, groups_data, user_to_groups_map, gi, mi,
              users_file, groups_file>>
mainVars == <<events, exc>>
setupVars == <<cookies, csrf_token, group_id_map, s_gi, s_ui, user_id, calls>>
setup2Vars == <<env, item, outcomes>>
vars == <<pc, entry, fetchVars, joinVars, mainVars, setupVars, setup2Vars>>

----------------------------------------------------------------------------
(* Bounds of the model. *)

MaxJoinInput == 5    \* users, groups and members passed to save_to_json, together
MaxRequests == 7     \* requests one run sends to the unconstrained server
MaxSrvGroups == 40   \* groups the list server holds
MaxSrvMembers == 100 \* members of one group of the list server

----------------------------------------------------------------------------
(* Python values. *)

None == "None"

Get(d, k) == IF k \in DOMAIN d THEN d[k] ELSE None

\* Python truthiness of a string-or-None value: None and "" are falsy.
Truthy(v) == v # None /\ v # ""

Range(s) == {s[i] : i \in 1..Len(s)}

----------------------------------------------------------------------------
(* The records the server can return. *)

UserUniverse ==
    { [accountId |-> "u1", name |-> "Ann", email |-> "ann@x",
       last_active_date |-> "d1", status |-> "active"],
      [accountId |-> "u2", name |-> "Bob", email |-> "bob@x",
       last_active_date |-> "d2", status |-> "inactive"],
      [name |-> "Cy", email |-> "cy@x"],
      [accountId |-> "", name |-> "Dee", status |-> "active"] }

MemberUniverse ==
    { [id |-> "u1", displayName |-> "Ann"],
      [id |-> "u9", displayName |-> "Zed"],
      [displayName |-> "Nobody"] }

GroupHeadUniverse ==
    { [id |-> "g1", name |-> "A", description |-> "dA"],
      [id |-> "g2", name |-> "B", description |-> "dB"],
      [id |-> "g3", name |-> "A"] }

\* A group as save_to_json receives it: a head, with or without a "members" key.
Members(group) == IF "members" \in DOMAIN group THEN group.members ELSE <<>>

RECURSIVE SumTo(_, _)
SumTo(sizes, k) == IF k = 0 THEN 0 ELSE sizes[k] + SumTo(sizes, k - 1)

\* The groups of the given heads: group k holds the next sizes[k] members of
\* flat; a group of nokey has no "members" key at all.
MakeGroups(heads, flat, sizes, nokey) ==
    [k \in 1..Len(heads) |->
        IF k \in nokey THEN heads[k]
        ELSE heads[k] @@
             [members |-> SubSeq(flat, SumTo(sizes, k - 1) + 1, SumTo(sizes, k))]]

\* The inputs of save_to_json: users, groups and members together number at
\* most MaxJoinInput.  Groups are fetched by id: the groups of one input have
\* different ids.
IsJoinInput(users, groups) ==
    \E nu \in 0..MaxJoinInput, ng \in 0..Cardinality(GroupHeadUniverse) :
      \E nm \in 0..(MaxJoinInput - nu - ng) :
        \E us \in [1..nu -> UserUniverse],
           heads \in { h \in [1..ng -> GroupHeadUniverse] :
                         \A k, l \in 1..ng : k # l => h[k] # h[l] },
           flat \in [1..nm -> MemberUniverse],
           sizes \in { z \in [1..ng -> 0..nm] : SumTo(z, ng) = nm } :
          \E nokey \in SUBSET { k \in 1..ng : sizes[k] = 0 } :
            /\ users = us
            /\ groups = MakeGroups(heads, flat, sizes, nokey)

----------------------------------------------------------------------------
(* The server.  srv.mode = "any": every request is answered by any response *)
(* of the response sets below.  srv.mode = "list": the server holds an      *)
(* ordered list of srv.ngroups groups, group k holding an ordered list of   *)
(* SrvMemberCount(k) members, and answers (count, start-index) with the     *)
(* items at the 1-based positions start-index .. start-index + count - 1.   *)

EmptyDict == <<>>

BaseUsersUrl == "users?limit=100"

AnyUsersResponses ==
    { [data |-> << [accountId |-> "u1", name |-> "Ann", email |-> "ann@x",
                    last_active_date |-> "d1", status |-> "active"] >>,
       links |-> [next |-> "users?cursor=1"]],
      [links |-> [next |-> "users?cursor=2"]],
      [data |-> << [name |-> "Cy", email |-> "cy@x"] >>, links |-> EmptyDict],
      [data |-> << [accountId |-> "u2", name |-> "Bob", email |-> "bob@x",
                    last_active_date |-> "d2", status |-> "inactive"] >>],
      EmptyDict }

AnyGroupsResponses ==
    { [groups |-> << [id |-> "g1", name |-> "A", description |-> "dA"] >>],
      [groups |-> << [id |-> "g2", name |-> "B", description |-> "dB"],
                     [id |-> "g3", name |-> "A"] >>],
      [groups |-> << [id |-> "g4", description |-> "unnamed"] >>],
      [groups |-> <<>>],
      EmptyDict }

AnyMembersResponses ==
    { [users |-> << [id |-> "u1", displayName |-> "Ann"] >>],
      [users |-> << [displayName |-> "Nobody"], [id |-> "u2", displayName |-> "Bob"] >>],
      [users |-> <<>>],
      EmptyDict }

Min(a, b) == IF a <= b THEN a ELSE b

Slice(list, count, start) ==
    IF start > Len(list) THEN <<>>
    ELSE SubSeq(list, start, Min(start + count - 1, Len(list)))

SrvGroups == [k \in 1..srv.ngroups |-> [id |-> k, name |-> k]]
SrvMemberCount(group_id) == (srv.nmembers * group_id) % (MaxSrvMembers + 1)
SrvMembers(group_id) ==
    [i \in 1..SrvMemberCount(group_id) |-> [id |-> <<group_id, i>>]]

UsersResponses(url) == AnyUsersResponses

GroupsResponses(count, start) ==
    IF srv.mode = "list"
    THEN { [groups |-> Slice(SrvGroups, count, start)] }
    ELSE AnyGroupsResponses

MembersResponses(group_id, count, start) ==
    IF srv.mode = "list"
    THEN { [users |-> Slice(SrvMembers(group_id), count, start)] }
    ELSE AnyMembersResponses

\* The unconstrained server may answer for ever: a run sends it at most
\* MaxRequests requests.
MaySend == srv.mode = "any" => Len(requests) < MaxRequests

----------------------------------------------------------------------------
(* fetch_users *)

\* data.get("data", [])
PageData(resp) == IF "data" \in DOMAIN resp THEN resp.data ELSE <<>>

\* data.get("links", {}).get("next", None)
NextLink(resp) ==
    IF "links" \in DOMAIN resp THEN Get(resp.links, "next") ELSE None

\* ExtendUsers testing the next link before it keeps the page.
ExtendUsers_SkipLastPage(users, resp) ==
    IF Truthy(NextLink(resp)) THEN users \o PageData(resp) ELSE users

\* all_users.extend(data.get("data", []))
ExtendUsers(users, resp) == users \o PageData(resp)

\* while next_url:
UsersLoopContinues(url) == Truthy(url)

FetchUsersPage ==
    /\ pc = "fetch_users_while"
    /\ UsersLoopContinues(next_url)
    /\ MaySend
    /\ \E resp \in UsersResponses(next_url) :
           /\ requests' = Append(requests, [fn |-> "users", url |-> next_url])
           /\ user_pages' = Append(user_pages, resp)
           /\ all_users' = ExtendUsers(all_users, resp)
           /\ next_url' = NextLink(resp)
    /\ UNCHANGED <<pc, entry, setupVars, setup2Vars, srv, g_start_index, groups_on_page, gidx, all_groups,
                   group_pages, m_group_id, m_start_index, all_members,
                   member_pages, joinVars, mainVars>>

FetchUsersReturn ==
    /\ pc = "fetch_users_while"
    /\ ~UsersLoopContinues(next_url)
    /\ pc' = "fetch_users_returned"
    /\ UNCHANGED <<entry, setupVars, setup2Vars, fetchVars, joinVars, mainVars>>

----------------------------------------------------------------------------
(* fetch_group_members and fetch_groups *)

MemberCount == 50
GroupCount == 20

\* data.get("users", []) and data.get("groups", [])
MembersOnPage(resp) == IF "users" \in DOMAIN resp THEN resp.users ELSE <<>>
GroupsOnPage(resp) == IF "groups" \in DOMAIN resp THEN resp.groups ELSE <<>>

\* PageEnds testing "is None", which the [] default of .get never is.
PageEnds_IsNone(page) == FALSE

\* if not members_on_page: break / if not groups_on_page: break
PageEnds(page) == page = <<>>

\* NextStart counting the last record of the page twice.
NextStart_Overlap(start, count) == start + count - 1

\* start_index += count
NextStart(start, count) == start + count

FetchMembersPage ==
    /\ pc = "fetch_group_members_while"
    /\ MaySend
    /\ \E resp \in MembersResponses(m_group_id, MemberCount, m_start_index) :
           /\ requests' = Append(requests,
                  [fn |-> "members", group |-> m_group_id,
                   count |-> MemberCount, start |-> m_start_index])
           /\ member_pages' = Append(member_pages,
                  [start |-> m_start_index, page |-> MembersOnPage(resp)])
           /\ IF PageEnds(MembersOnPage(resp))
              THEN /\ pc' = "fetch_group_members_returned"
                   /\ UNCHANGED <<all_members, m_start_index>>
              ELSE /\ all_members' = all_members \o MembersOnPage(resp)
                   /\ m_start_index' = NextStart(m_start_index, MemberCount)
                   /\ pc' = pc
    /\ UNCHANGED <<entry, setupVars, setup2Vars, srv, next_url, all_users, user_pages, g_start_index,
                   groups_on_page, gidx, all_groups, group_pages, m_group_id,
                   joinVars, mainVars>>

FetchGroupsPage ==
    /\ pc = "fetch_groups_while"
    /\ MaySend
    /\ \E resp \in GroupsResponses(GroupCount, g_start_index) :
           /\ requests' = Append(requests,
                  [fn |-> "groups", count |-> GroupCount, start |-> g_start_index])
           /\ group_pages' = Append(group_pages,
                  [start |-> g_start_index, page |-> GroupsOnPage(resp)])
           /\ IF PageEnds(GroupsOnPage(resp))
              THEN /\ pc' = "fetch_groups_returned"
                   /\ UNCHANGED <<groups_on_page, gidx>>
              ELSE /\ groups_on_page' = GroupsOnPage(resp)
                   /\ gidx' = 1
                   /\ pc' = "fetch_groups_for"
    /\ UNCHANGED <<entry, setupVars, setup2Vars, srv, next_url, all_users, user_pages, g_start_index,
                   all_groups, m_group_id, m_start_index, all_members,
                   member_pages, joinVars, mainVars>>

\* group['name'] and group['id'] of the loop body raise KeyError on a group
\* that lacks the key.
HasNameAndId(group) == "name" \in DOMAIN group /\ "id" \in DOMAIN group

\* for group in groups_on_page: members = await fetch_group_members(page, group['id'])
FetchGroupsCallMembers ==
    /\ pc = "fetch_groups_for"
    /\ gidx <= Len(groups_on_page)
    /\ HasNameAndId(groups_on_page[gidx])
    /\ m_group_id' = groups_on_page[gidx].id
    /\ all_members' = <<>>
    /\ m_start_index' = 1
    /\ member_pages' = <<>>
    /\ pc' = "fetch_group_members_while"
    /\ UNCHANGED <<entry, setupVars, setup2Vars, srv, requests, next_url, all_users, user_pages,
                   g_start_index, groups_on_page, gidx, all_groups, group_pages,
                   joinVars, mainVars>>

\* group['members'] = members
SetMembers(groups, i, members) ==
    [groups EXCEPT ![i] = [k \in DOMAIN @ \cup {"members"} |->
                             IF k = "members" THEN members ELSE @[k]]]

FetchGroupsAssignMembers ==
    /\ pc = "fetch_group_members_returned"
    /\ entry # "fetch_group_members"
    /\ groups_on_page' = SetMembers(groups_on_page, gidx, all_members)
    /\ gidx' = gidx + 1
    /\ pc' = "fetch_groups_for"
    /\ UNCHANGED <<entry, setupVars, setup2Vars, srv, requests, next_url, all_users, user_pages,
                   g_start_index, all_groups, group_pages, m_group_id,
                   m_start_index, all_members, member_pages, joinVars, mainVars>>

\* all_groups.extend(groups_on_page); start_index += count
FetchGroupsExtend ==
    /\ pc = "fetch_groups_for"
    /\ gidx > Len(groups_on_page)
    /\ all_groups' = all_groups \o groups_on_page
    /\ g_start_index' = NextStart(g_start_index, GroupCount)
    /\ pc' = "fetch_groups_while"
    /\ UNCHANGED <<entry, setupVars, setup2Vars, srv, requests, next_url, all_users, user_pages,
                   groups_on_page, gidx, group_pages, m_group_id, m_start_index,
                   all_members, member_pages, joinVars, mainVars>>

----------------------------------------------------------------------------
(* json.dump: None becomes null, a str a string, a list an array and a     *)
(* dict an object.                                                         *)

NoFile == [t |-> "nofile"]
JsonScalar(v) == IF v = None THEN [t |-> "null"] ELSE [t |-> "string", v |-> v]
JsonArray(items) == [t |-> "array", items |-> items]
JsonObject(fields) == [t |-> "object", fields |-> fields]
JsonScalars(s) == JsonArray([i \in 1..Len(s) |-> JsonScalar(s[i])])

JsonUser(u) ==
    JsonObject([id |-> JsonScalar(u.id), name |-> JsonScalar(u.name),
                email |-> JsonScalar(u.email),
                last_active |-> JsonScalar(u.last_active),
                status |-> JsonScalar(u.status),
                groups |-> JsonScalars(u.groups)])

JsonGroup(g) ==
    JsonObject([id |-> JsonScalar(g.id), name |-> JsonScalar(g.name),
                description |-> JsonScalar(g.description),
                members |-> JsonScalars(g.members)])

DumpUsers(out) == JsonArray([i \in 1..Len(out) |-> JsonUser(out[i])])
DumpGroups(out) == JsonArray([i \in 1..Len(out) |-> JsonGroup(out[i])])

----------------------------------------------------------------------------
(* save_to_json *)

\* Step 1: one empty list per truthy accountId.
NewUserMap(users) ==
    [k \in { Get(u, "accountId") :
             u \in { v \in Range(users) : Truthy(Get(v, "accountId")) } } |-> <<>>]

\* AddMembership reading the member's id under the users' key "accountId".
AddMembership_AccountIdKey(map, member, group_name) ==
    LET member_id == Get(member, "accountId")
    IN  IF member_id \in DOMAIN map
        THEN [map EXCEPT ![member_id] = Append(@, group_name)]
        ELSE map

\* AddMembership as map.setdefault(member_id, []).append(group_name).
AddMembership_SetDefault(map, member, group_name) ==
    LET member_id == Get(member, "id")
    IN  IF member_id \in DOMAIN map
        THEN [map EXCEPT ![member_id] = Append(@, group_name)]
        ELSE [k \in DOMAIN map \cup {member_id} |->
                IF k = member_id THEN <<group_name>> ELSE map[k]]

\* Step 2, one member: append the group's name if the member's id is a key.
AddMembership(map, member, group_name) ==
    LET member_id == Get(member, "id")
    IN  IF member_id \in DOMAIN map
        THEN [map EXCEPT ![member_id] = Append(@, group_name)]
        ELSE map

\* UserOut reading the last-active date under the output's key "last_active".
UserOut_LastActiveKey(user, map) ==
    [id |-> Get(user, "accountId"),
     name |-> Get(user, "name"),
     email |-> Get(user, "email"),
     last_active |-> Get(user, "last_active"),
     status |-> Get(user, "status"),
     groups |-> IF Get(user, "accountId") \in DOMAIN map
                THEN map[Get(user, "accountId")] ELSE <<>>]

\* Step 3, one user.
UserOut(user, map) ==
    [id |-> Get(user, "accountId"),
     name |-> Get(user, "name"),
     email |-> Get(user, "email"),
     last_active |-> Get(user, "last_active_date"),
     status |-> Get(user, "status"),
     groups |-> IF Get(user, "accountId") \in DOMAIN map
                THEN map[Get(user, "accountId")] ELSE <<>>]

UsersOutput(users, map) == [i \in 1..Len(users) |-> UserOut(users[i], map)]

\* GroupOut listing only the members that carry an id.
GroupOut_OnlyIdentified(group) ==
    [id |-> Get(group, "id"),
     name |-> Get(group, "name"),
     description |-> Get(group, "description"),
     members |-> SelectSeq([j \in 1..Len(Members(group)) |-> Members(group)[j]],
                           LAMBDA m : "id" \in DOMAIN m)]

\* Step 4, one group.
GroupOut(group) ==
    [id |-> Get(group, "id"),
     name |-> Get(group, "name"),
     description |-> Get(group, "description"),
     members |-> [j \in 1..Len(Members(group)) |->
                    Get(Members(group)[j], "displayName")]]

GroupsOutput(groups) == [i \in 1..Len(groups) |-> GroupOut(groups[i])]

SaveBuildMap ==
    /\ pc = "save_to_json"
    /\ user_to_groups_map' = NewUserMap(users_data)
    /\ gi' = 1
    /\ mi' = 1
    /\ pc' = "save_populate"
    /\ UNCHANGED <<entry, setupVars, setup2Vars, fetchVars, mainVars, users_data, groups_data,
                   users_file, groups_file>>

SavePopulateMember ==
    /\ pc = "save_populate"
    /\ gi <= Len(groups_data)
    /\ mi <= Len(Members(groups_data[gi]))
    /\ user_to_groups_map' =
           AddMembership(user_to_groups_map, Members(groups_data[gi])[mi],
                         Get(groups_data[gi], "name"))
    /\ mi' = mi + 1
    /\ UNCHANGED <<pc, entry, setupVars, setup2Vars, fetchVars, mainVars, users_data, groups_data, gi,
                   users_file, groups_file>>

SavePopulateNextGroup ==
    /\ pc = "save_populate"
    /\ gi <= Len(groups_data)
    /\ mi > Len(Members(groups_data[gi]))
    /\ gi' = gi + 1
    /\ mi' = 1
    /\ UNCHANGED <<pc, entry, setupVars, setup2Vars, fetchVars, mainVars, users_data, groups_data,
                   user_to_groups_map, users_file, groups_file>>

SaveWriteUsers ==
    /\ pc = "save_populate"
    /\ gi > Len(groups_data)
    /\ users_file' = DumpUsers(UsersOutput(users_data, user_to_groups_map))
    /\ events' = Append(events, "write_users")
    /\ pc' = "save_write_groups"
    /\ UNCHANGED <<entry, setupVars, setup2Vars, fetchVars, exc, users_data, groups_data,
                   user_to_groups_map, gi, mi, groups_file>>

SaveWriteGroups ==
    /\ pc = "save_write_groups"
    /\ groups_file' = DumpGroups(GroupsOutput(groups_data))
    /\ events' = Append(events, "write_groups")
    /\ pc' = "save_to_json_returned"
    /\ UNCHANGED <<entry, setupVars, setup2Vars, fetchVars, exc, users_data, groups_data,
                   user_to_groups_map, gi, mi, users_file>>

\* The state of everything outside save_to_json when it is called directly.
IdleFetch ==
    /\ srv = [mode |-> "none", ngroups |-> 0, nmembers |-> 0]
    /\ requests = <<>>
    /\ next_url = None
    /\ all_users = <<>>
    /\ user_pages = <<>>
    /\ g_start_index = 1
    /\ groups_on_page = <<>>
    /\ gidx = 1
    /\ all_groups = <<>>
    /\ group_pages = <<>>
    /\ m_group_id = None
    /\ m_start_index = 1
    /\ all_members = <<>>
    /\ member_pages = <<>>

IdleJoin ==
    /\ users_data = <<>>
    /\ groups_data = <<>>
    /\ user_to_groups_map = <<>>
    /\ gi = 1
    /\ mi = 1
    /\ users_file = NoFile
    /\ groups_file = NoFile

IdleMain ==
    /\ events = <<>>
    /\ exc = None

\* The state of setup.py when it is not the program run.
IdleSetup ==
    /\ cookies = <<>>
    /\ csrf_token = None
    /\ group_id_map = <<>>
    /\ s_gi = 1
    /\ s_ui = 1
    /\ user_id = None
    /\ calls = <<>>

\* The state of setup2.py when it is not the program run.
IdleSetup2 ==
    /\ env = {}
    /\ item = 1
    /\ outcomes = <<>>

\* save_to_json(users_data, groups_data) called on its own.
InitJoin ==
    /\ pc = "save_to_json"
    /\ entry = "save_to_json"
    /\ IdleFetch
    /\ IdleMain
    /\ IdleSetup
    /\ IdleSetup2
    /\ IsJoinInput(users_data, groups_data)
    /\ user_to_groups_map = <<>>
    /\ gi = 1
    /\ mi = 1
    /\ users_file = NoFile
    /\ groups_file = NoFile

NextJoin ==
    \/ SaveBuildMap
    \/ SavePopulateMember
    \/ SavePopulateNextGroup
    \/ SaveWriteUsers
    \/ SaveWriteGroups

SpecJoin == InitJoin /\ [][NextJoin]_vars

----------------------------------------------------------------------------
(* fetch_groups and fetch_group_members against the list server. *)

InitServer ==
    /\ entry \in {"fetch_groups", "fetch_group_members"}
    /\ pc = entry \o "_while"
    /\ srv \in IF entry = "fetch_groups"
               THEN { [mode |-> "list", ngroups |-> n, nmembers |-> m] :
                          n \in 0..MaxSrvGroups, m \in {1, MemberCount} }
               ELSE { [mode |-> "list", ngroups |-> 1, nmembers |-> m] :
                          m \in 0..MaxSrvMembers }
    /\ requests = <<>>
    /\ next_url = None
    /\ all_users = <<>>
    /\ user_pages = <<>>
    /\ g_start_index = 1
    /\ groups_on_page = <<>>
    /\ gidx = 1
    /\ all_groups = <<>>
    /\ group_pages = <<>>
    /\ m_group_id = 1
    /\ m_start_index = 1
    /\ all_members = <<>>
    /\ member_pages = <<>>
    /\ IdleJoin
    /\ IdleMain
    /\ IdleSetup
    /\ IdleSetup2

NextServer ==
    \/ FetchGroupsPage
    \/ FetchGroupsCallMembers
    \/ FetchMembersPage
    \/ FetchGroupsAssignMembers
    \/ FetchGroupsExtend

SpecServer == InitServer /\ [][NextServer]_vars

----------------------------------------------------------------------------
(* main *)

\* The exceptions the steps raise: Playwright's Error and TimeoutError,
\* KeyError, OSError.  All are subclasses of Exception.
Exceptions == {"Error", "TimeoutError", "KeyError", "OSError"}

\* Catches handling Playwright's TimeoutError only.
Catches_TimeoutOnly(e) == e = "TimeoutError"

\* except Exception as e:
Catches(e) == e \in Exceptions

\* The step of main that is running at position p.
StepAt(p) ==
    CASE p = "login" -> "login"
      [] p = "fetch_users_while" -> "fetch_users"
      [] p \in {"fetch_groups_while", "fetch_groups_for",
                "fetch_group_members_while"} -> "fetch_groups"
      [] OTHER -> "save_to_json"

\* RaiseTarget for a fetch_groups that logs its own errors and returns.
RaiseTarget_FetchGroupsSwallows(step) ==
    IF step = "fetch_groups" THEN "fetch_groups_returned" ELSE "main_raise"

\* Where control goes when a step raises: out of the try block.
RaiseTarget(step) == "main_raise"

Init ==
    /\ pc = "main_try"
    /\ entry = "main"
    /\ srv = [mode |-> "any", ngroups |-> 0, nmembers |-> 0]
    /\ requests = <<>>
    /\ next_url = None
    /\ all_users = <<>>
    /\ user_pages = <<>>
    /\ g_start_index = 1
    /\ groups_on_page = <<>>
    /\ gidx = 1
    /\ all_groups = <<>>
    /\ group_pages = <<>>
    /\ m_group_id = None
    /\ m_start_index = 1
    /\ all_members = <<>>
    /\ member_pages = <<>>
    /\ IdleJoin
    /\ IdleMain
    /\ IdleSetup
    /\ IdleSetup2

\* await login(page)
MainCallLogin ==
    /\ pc = "main_try"
    /\ events' = Append(events, "login:called")
    /\ pc' = "login"
    /\ UNCHANGED <<entry, setupVars, setup2Vars, fetchVars, joinVars, exc>>

\* users = await fetch_users(page), up to the while loop
MainCallFetchUsers ==
    /\ pc = "login"
    /\ events' = events \o <<"login:returned", "fetch_users:called">>
    /\ all_users' = <<>>
    /\ next_url' = BaseUsersUrl
    /\ user_pages' = <<>>
    /\ pc' = "fetch_users_while"
    /\ UNCHANGED <<entry, setupVars, setup2Vars, srv, requests, g_start_index, groups_on_page, gidx,
                   all_groups, group_pages, m_group_id, m_start_index,
                   all_members, member_pages, joinVars, exc>>

\* groups = await fetch_groups(page), up to the while loop
MainCallFetchGroups ==
    /\ pc = "fetch_users_returned"
    /\ entry = "main"
    /\ events' = events \o <<"fetch_users:returned", "fetch_groups:called">>
    /\ all_groups' = <<>>
    /\ g_start_index' = 1
    /\ group_pages' = <<>>
    /\ pc' = "fetch_groups_while"
    /\ UNCHANGED <<entry, setupVars, setup2Vars, srv, requests, next_url, all_users, user_pages,
                   groups_on_page, gidx, m_group_id, m_start_index, all_members,
                   member_pages, joinVars, exc>>

\* save_to_json(users, groups)
MainCallSave ==
    /\ pc = "fetch_groups_returned"
    /\ entry = "main"
    /\ events' = events \o <<"fetch_groups:returned", "save_to_json:called">>
    /\ users_data' = all_users
    /\ groups_data' = all_groups
    /\ pc' = "save_to_json"
    /\ UNCHANGED <<entry, setupVars, setup2Vars, fetchVars, user_to_groups_map, gi, mi, users_file,
                   groups_file, exc>>

\* print("Script finished successfully!"), leaving the try block
MainFinished ==
    /\ pc = "save_to_json_returned"
    /\ entry = "main"
    /\ events' = events \o <<"save_to_json:returned", "finished">>
    /\ pc' = "main_finally"
    /\ UNCHANGED <<entry, setupVars, setup2Vars, fetchVars, joinVars, exc>>

\* The places where the running step can raise: login's awaits, a request or
\* its .json(), a group without 'name' or 'id', the open() of an output file.
CanRaise(e) ==
    \/ pc = "login" /\ e \in {"Error", "TimeoutError"}
    \/ pc = "fetch_users_while" /\ UsersLoopContinues(next_url)
          /\ e \in {"Error", "TimeoutError"}
    \/ pc \in {"fetch_groups_while", "fetch_group_members_while"}
          /\ e \in {"Error", "TimeoutError"}
    \/ pc = "fetch_groups_for" /\ gidx <= Len(groups_on_page)
          /\ ~HasNameAndId(groups_on_page[gidx]) /\ e = "KeyError"
    \/ pc = "save_populate" /\ gi > Len(groups_data) /\ e = "OSError"
    \/ pc = "save_write_groups" /\ e = "OSError"

StepRaises ==
    /\ entry = "main"
    /\ \E e \in Exceptions :
           /\ CanRaise(e)
           /\ exc' = e
    /\ events' = Append(events, StepAt(pc) \o ":raised")
    /\ pc' = RaiseTarget(StepAt(pc))
    /\ UNCHANGED <<entry, setupVars, setup2Vars, fetchVars, joinVars>>

\* except Exception as e: print(...); an exception the clause does not match
\* goes on to the finally block as it is.
MainExcept ==
    /\ pc = "main_raise"
    /\ IF Catches(exc)
       THEN /\ events' = Append(events, "error_printed")
            /\ exc' = None
       ELSE UNCHANGED <<events, exc>>
    /\ pc' = "main_finally"
    /\ UNCHANGED <<entry, setupVars, setup2Vars, fetchVars, joinVars>>

\* finally: await browser.close(); then main returns, or the exception that
\* is still being raised leaves main.
MainFinally ==
    /\ pc = "main_finally"
    /\ events' = Append(events, "browser_closed")
    /\ pc' = IF exc = None THEN "main_done" ELSE "main_propagated"
    /\ UNCHANGED <<entry, setupVars, setup2Vars, fetchVars, joinVars, exc>>

Next ==
    \/ MainCallLogin
    \/ MainCallFetchUsers
    \/ FetchUsersPage
    \/ FetchUsersReturn
    \/ MainCallFetchGroups
    \/ FetchGroupsPage
    \/ FetchGroupsCallMembers
    \/ FetchMembersPage
    \/ FetchGroupsAssignMembers
    \/ FetchGroupsExtend
    \/ MainCallSave
    \/ SaveBuildMap
    \/ SavePopulateMember
    \/ SavePopulateNextGroup
    \/ SaveWriteUsers
    \/ SaveWriteGroups
    \/ MainFinished
    \/ StepRaises
    \/ MainExcept
    \/ MainFinally

Spec == Init /\ [][Next]_vars

----------------------------------------------------------------------------
(* Claims about save_to_json, checked under SpecJoin. *)

UsersWritten == pc \in {"save_write_groups", "save_to_json_returned"}
GroupsWritten == pc = "save_to_json_returned"

\* The record of users.json at position i, and its groups list.
FileUser(i) == users_file.items[i].fields
FileUserGroups(i) == FileUser(i).groups.items
FileGroup(i) == groups_file.items[i].fields

HasMember(group, id) ==
    \E j \in 1..Len(Members(group)) : Get(Members(group)[j], "id") = id

GroupName(k) == JsonScalar(Get(groups_data[k], "name"))

\* The names of a groups list follow the order of groups_data: any two
\* entries come from groups that hold the user and stand in that order.
InGroupOrder(list, id) ==
    \A p, q \in 1..Len(list) :
        p < q =>
            \E k, l \in 1..Len(groups_data) :
                /\ k <= l
                /\ GroupName(k) = list[p] /\ HasMember(groups_data[k], id)
                /\ GroupName(l) = list[q] /\ HasMember(groups_data[l], id)

\* C1 as stated: for every user u with a non-empty accountId and every group
\* g, g's name occurs in u's groups list iff some member of g has u's
\* accountId as its id, and the names occur in the order of the groups.
C1_NameIffMemberOfThatGroup ==
    UsersWritten =>
        \A i \in 1..Len(users_data) :
            Truthy(Get(users_data[i], "accountId")) =>
                /\ \A k \in 1..Len(groups_data) :
                       (GroupName(k) \in Range(FileUserGroups(i)))
                       <=> HasMember(groups_data[k], Get(users_data[i], "accountId"))
                /\ InGroupOrder(FileUserGroups(i), Get(users_data[i], "accountId"))

\* C1 amended: for every user u with a non-empty accountId, a name occurs in
\* u's groups list iff some fetched group bearing that name has a member
\* whose id is u's accountId, and the names occur in the order of the groups.
C1_NameIffMemberOfGroupSoNamed ==
    UsersWritten =>
        \A i \in 1..Len(users_data) :
            Truthy(Get(users_data[i], "accountId")) =>
                /\ \A k \in 1..Len(groups_data) :
                       (GroupName(k) \in Range(FileUserGroups(i)))
                       <=> \E l \in 1..Len(groups_data) :
                               /\ GroupName(l) = GroupName(k)
                               /\ HasMember(groups_data[l],
                                            Get(users_data[i], "accountId"))
                /\ Range(FileUserGroups(i)) \subseteq
                       {GroupName(k) : k \in 1..Len(groups_data)}
                /\ InGroupOrder(FileUserGroups(i), Get(users_data[i], "accountId"))

\* Two groups of different names, a user who is a member of the first only.
C1_Witness ==
    /\ UsersWritten
    /\ \E i \in 1..Len(users_data), k, l \in 1..Len(groups_data) :
           /\ Truthy(Get(users_data[i], "accountId"))
           /\ HasMember(groups_data[k], Get(users_data[i], "accountId"))
           /\ ~HasMember(groups_data[l], Get(users_data[i], "accountId"))
           /\ GroupName(k) # GroupName(l)
           /\ FileUserGroups(i) = <<GroupName(k)>>

\* C3 as stated: after the population step no group has contributed its name
\* more than once to a user's list, so no name occurs in a list more often
\* than there are groups bearing it.
C3_GroupNameAtMostOnce ==
    UsersWritten =>
        \A id \in DOMAIN user_to_groups_map :
            \A k \in 1..Len(groups_data) :
                Cardinality({p \in 1..Len(user_to_groups_map[id]) :
                               user_to_groups_map[id][p] = Get(groups_data[k], "name")})
                <= Cardinality({l \in 1..Len(groups_data) :
                               Get(groups_data[l], "name") = Get(groups_data[k], "name")})

\* C4: users.json holds one record per user of users_data, in order, with
\* the five schema fields taken from accountId, name, email,
\* last_active_date and status; a user without accountId has no groups.
C4_UsersFileKeepsEveryUser ==
    UsersWritten =>
        /\ users_file.t = "array"
        /\ Len(users_file.items) = Len(users_data)
        /\ \A i \in 1..Len(users_data) :
               /\ users_file.items[i].t = "object"
               /\ DOMAIN FileUser(i) =
                      {"id", "name", "email", "last_active", "status", "groups"}
               /\ FileUser(i).id = JsonScalar(Get(users_data[i], "accountId"))
               /\ FileUser(i).name = JsonScalar(Get(users_data[i], "name"))
               /\ FileUser(i).email = JsonScalar(Get(users_data[i], "email"))
               /\ FileUser(i).last_active =
                      JsonScalar(Get(users_data[i], "last_active_date"))
               /\ FileUser(i).status = JsonScalar(Get(users_data[i], "status"))
               /\ FileUser(i).groups.t = "array"
               /\ ("accountId" \notin DOMAIN users_data[i]) =>
                      FileUserGroups(i) = <<>>

\* A user without accountId written after a user who has groups.
C4_Witness ==
    /\ UsersWritten
    /\ Len(users_data) = 2
    /\ "accountId" \in DOMAIN users_data[1]
    /\ Get(users_data[1], "last_active_date") # None
    /\ FileUserGroups(1) # <<>>
    /\ "accountId" \notin DOMAIN users_data[2]
    /\ FileUser(2).id = [t |-> "null"]

\* C5: groups.json holds one record per group of groups_data, in order, with
\* its id, name and description, and one display name per member, in order,
\* whatever the member's id.
C5_GroupsFileKeepsEveryMember ==
    GroupsWritten =>
        /\ groups_file.t = "array"
        /\ Len(groups_file.items) = Len(groups_data)
        /\ \A i \in 1..Len(groups_data) :
               /\ groups_file.items[i].t = "object"
               /\ DOMAIN FileGroup(i) = {"id", "name", "description", "members"}
               /\ FileGroup(i).id = JsonScalar(Get(groups_data[i], "id"))
               /\ FileGroup(i).name = JsonScalar(Get(groups_data[i], "name"))
               /\ FileGroup(i).description =
                      JsonScalar(Get(groups_data[i], "description"))
               /\ FileGroup(i).members.t = "array"
               /\ Len(FileGroup(i).members.items) = Len(Members(groups_data[i]))
               /\ \A j \in 1..Len(Members(groups_data[i])) :
                      FileGroup(i).members.items[j] =
                          JsonScalar(Get(Members(groups_data[i])[j], "displayName"))

\* A group whose members are a known user, then one without an id.
C5_Witness ==
    /\ GroupsWritten
    /\ \E i \in 1..Len(groups_data) :
           /\ Len(Members(groups_data[i])) = 2
           /\ Get(Members(groups_data[i])[1], "id") \in DOMAIN user_to_groups_map
           /\ "id" \notin DOMAIN Members(groups_data[i])[2]
           /\ Len(FileGroup(i).members.items) = 2

NonEmptyAccountIds ==
    { Get(users_data[i], "accountId") :
      i \in { j \in 1..Len(users_data) : Truthy(Get(users_data[j], "accountId")) } }

\* C6: from step 1 on the keys of user_to_groups_map are exactly the
\* non-empty accountIds of users_data; the population step adds no key, and
\* a member whose id is no key leaves the map as it is and the loop goes on.
C6_UnmatchedMembersDropped ==
    [][ /\ (pc' \in {"save_populate", "save_write_groups", "save_to_json_returned"})
            => DOMAIN user_to_groups_map' = NonEmptyAccountIds'
        /\ (pc = "save_populate" /\ pc' = "save_populate")
            => DOMAIN user_to_groups_map' = DOMAIN user_to_groups_map
        /\ ( /\ pc = "save_populate"
             /\ gi <= Len(groups_data)
             /\ mi <= Len(Members(groups_data[gi]))
             /\ Get(Members(groups_data[gi])[mi], "id") \notin DOMAIN user_to_groups_map )
            => /\ user_to_groups_map' = user_to_groups_map
               /\ pc' = "save_populate" /\ gi' = gi /\ mi' = mi + 1
      ]_vars

\* A member without an id and a member of unknown id have both been passed
\* over while the map has a key.
C6_Witness ==
    /\ pc = "save_populate"
    /\ gi <= Len(groups_data)
    /\ mi = 3
    /\ "id" \notin DOMAIN Members(groups_data[gi])[1]
    /\ Get(Members(groups_data[gi])[2], "id") = "u9"
    /\ DOMAIN user_to_groups_map # {}

----------------------------------------------------------------------------
(* Claims about the fetchers against any server, checked under Spec. *)

InFetchGroups ==
    pc \in {"fetch_groups_while", "fetch_groups_for",
            "fetch_group_members_while", "fetch_group_members_returned"}

\* C2: a response of fetch_users without a 'next' link, and an empty page of
\* fetch_groups or of fetch_group_members, is the last response of its
\* loop: no request of the loop follows it and the function returns.
C2_LoopsStopAtLastPage ==
    /\ \A i \in 1..(Len(user_pages) - 1) : Truthy(NextLink(user_pages[i]))
    /\ ( /\ pc = "fetch_users_while"
         /\ Len(user_pages) > 0
         /\ ~Truthy(NextLink(user_pages[Len(user_pages)])) )
           => (ENABLED FetchUsersReturn) /\ ~(ENABLED FetchUsersPage)
                 /\ ~(ENABLED StepRaises)
    /\ \A i \in 1..(Len(group_pages) - 1) : group_pages[i].page # <<>>
    /\ (Len(group_pages) > 0 /\ group_pages[Len(group_pages)].page = <<>>)
           => ~InFetchGroups
    /\ \A i \in 1..(Len(member_pages) - 1) : member_pages[i].page # <<>>
    /\ (Len(member_pages) > 0 /\ member_pages[Len(member_pages)].page = <<>>)
           => pc # "fetch_group_members_while"

\* Each of the three loops has ended on its second response.
C2_Witness ==
    /\ pc = "fetch_groups_returned"
    /\ Len(user_pages) = 2
    /\ Len(group_pages) = 2
    /\ Len(member_pages) = 2

RECURSIVE ConcatData(_, _)
ConcatData(pages, n) ==
    IF n = 0 THEN <<>> ELSE ConcatData(pages, n - 1) \o PageData(pages[n])

UserRequests == SelectSeq(requests, LAMBDA r : r.fn = "users")

\* C10: all_users is the concatenation, in request order, of the data lists
\* of every page received, the page without a 'next' link included, and
\* every request after the first goes to the 'next' link of the response
\* before it.
C10_AllPagesInOrder ==
    /\ Len(UserRequests) = Len(user_pages)
    /\ all_users = ConcatData(user_pages, Len(user_pages))
    /\ \A i \in 2..Len(UserRequests) :
           UserRequests[i].url = NextLink(user_pages[i - 1])

\* fetch_users has returned after two pages with data, the second one
\* carrying no 'next' link.
C10_Witness ==
    /\ pc = "fetch_users_returned"
    /\ Len(user_pages) = 2
    /\ PageData(user_pages[1]) # <<>>
    /\ PageData(user_pages[2]) # <<>>
    /\ "links" \notin DOMAIN user_pages[2]
    /\ Len(all_users) = 2

----------------------------------------------------------------------------
(* Claims about main, checked under Spec. *)

Happened(e) == \E i \in 1..Len(events) : events[i] = e
Count(e) == Cardinality({ i \in 1..Len(events) : events[i] = e })

InSave ==
    pc \in {"save_to_json", "save_populate", "save_write_groups",
            "save_to_json_returned"}

RaisedEvents ==
    {"login:raised", "fetch_users:raised", "fetch_groups:raised",
     "save_to_json:raised"}
CalledEvents ==
    {"login:called", "fetch_users:called", "fetch_groups:called",
     "save_to_json:called"}

\* C7: save_to_json starts only after login, fetch_users and fetch_groups
\* have returned, in that order, and works on what the two fetches
\* returned; if login or a fetch raises, neither file is written.
C7_SaveOnlyAfterBothFetches ==
    /\ (InSave \/ Happened("save_to_json:called") \/ Happened("write_users")
           \/ Happened("write_groups") \/ users_file # NoFile \/ groups_file # NoFile)
       => /\ Len(events) >= 7
          /\ SubSeq(events, 1, 7) =
                 <<"login:called", "login:returned",
                   "fetch_users:called", "fetch_users:returned",
                   "fetch_groups:called", "fetch_groups:returned",
                   "save_to_json:called">>
          /\ users_data = all_users
          /\ groups_data = all_groups
    /\ (Happened("login:raised") \/ Happened("fetch_users:raised")
           \/ Happened("fetch_groups:raised"))
       => /\ users_file = NoFile /\ groups_file = NoFile
          /\ ~Happened("write_users") /\ ~Happened("write_groups")
          /\ ~Happened("save_to_json:called")
          /\ ~InSave

\* fetch_groups raised after fetch_users had returned users, and main has
\* ended without a file.
C7_Witness ==
    /\ pc = "main_done"
    /\ all_users # <<>>
    /\ Happened("fetch_groups:raised")
    /\ users_file = NoFile /\ groups_file = NoFile

\* C8: once a step has raised, no step is called (none later, none again),
\* the error is printed and the browser closed; the exception does not
\* leave main; the browser is closed exactly once on either path.
C8_CatchAllAborts ==
    /\ \A i, j \in 1..Len(events) :
           (i < j /\ events[i] \in RaisedEvents)
               => events[j] \in {"error_printed", "browser_closed"}
    /\ \A e \in CalledEvents : Count(e) <= 1
    /\ (\E e \in RaisedEvents : Happened(e))
           => pc \in {"main_raise", "main_finally", "main_done"}
    /\ pc # "main_propagated"
    /\ Count("browser_closed") <= 1
    /\ pc = "main_done"
           => /\ Count("browser_closed") = 1
              /\ events[Len(events)] = "browser_closed"
              /\ exc = None
              /\ (\E e \in RaisedEvents : Happened(e)) <=> Happened("error_printed")
              /\ (\E e \in RaisedEvents : Happened(e)) <=> ~Happened("finished")
    /\ pc = "main_finally" => ENABLED MainFinally
    /\ pc = "main_raise" => ENABLED MainExcept

\* main has ended after save_to_json raised between the two files.
C8_Witness ==
    /\ pc = "main_done"
    /\ Happened("save_to_json:raised")
    /\ users_file # NoFile /\ groups_file = NoFile
    /\ Count("browser_closed") = 1

----------------------------------------------------------------------------
(* Claims about the fetchers against the list server, checked under        *)
(* SpecServer.                                                             *)

\* The start-index values of the requests of the sequence reqs.
Starts(reqs) == [i \in 1..Len(reqs) |-> reqs[i].start]
Progression(n, count) == [i \in 1..n |-> 1 + (i - 1) * count]

MemberRequests(group_id) ==
    SelectSeq(requests, LAMBDA r : r.fn = "members" /\ r.group = group_id)
GroupRequests == SelectSeq(requests, LAMBDA r : r.fn = "groups")

\* C9: against the list server fetch_group_members returns the members of
\* its group, each once and in server order, and fetch_groups the groups,
\* each once and in server order and each with the members of its own id;
\* the start-index values requested are 1, 1 + count, 1 + 2 * count, ...
C9_ListServerFetchedCompletely ==
    /\ pc = "fetch_group_members_returned"
           => /\ all_members = SrvMembers(m_group_id)
              /\ Starts(MemberRequests(m_group_id)) =
                     Progression(Len(MemberRequests(m_group_id)), 50)
              /\ \A i \in 1..Len(MemberRequests(m_group_id)) :
                     MemberRequests(m_group_id)[i].count = 50
    /\ pc = "fetch_groups_returned"
           => /\ Len(all_groups) = srv.ngroups
              /\ \A k \in 1..srv.ngroups :
                     /\ all_groups[k].id = SrvGroups[k].id
                     /\ all_groups[k].name = SrvGroups[k].name
                     /\ all_groups[k].members = SrvMembers(SrvGroups[k].id)
                     /\ Starts(MemberRequests(SrvGroups[k].id)) =
                            Progression(Len(MemberRequests(SrvGroups[k].id)), 50)
              /\ Starts(GroupRequests) = Progression(Len(GroupRequests), 20)
              /\ \A i \in 1..Len(GroupRequests) : GroupRequests[i].count = 20

\* fetch_groups has returned two full pages of groups, one of which holds
\* two full pages of members.
C9_Witness ==
    /\ pc = "fetch_groups_returned"
    /\ Len(all_groups) = 2 * GroupCount
    /\ Len(GroupRequests) = 3
    /\ \E k \in 1..Len(all_groups) :
           /\ Len(all_groups[k].members) = 2 * MemberCount
           /\ Len(MemberRequests(all_groups[k].id)) = 3

----------------------------------------------------------------------------
(* setup.py *)

MaxCookies == 2      \* cookies the browser context holds after login

GROUPS_TO_CREATE ==
    << [name |-> "DevOps Team", description |-> "Group for DevOps engineers."],
       [name |-> "QA-Testers",
        description |-> "Group for the Quality Assurance team."] >>

USERS_TO_INVITE ==
    << [email |-> "devops-final@example.com", group_name |-> "DevOps Team"],
       [email |-> "qa-final@example.com", group_name |-> "QA-Testers"] >>

\* correct_cookie_name
CsrfCookieName == "atlassian.account.xsrf.token"

\* The cookies a context can hold: the token cookie with a value, the token
\* cookie with an empty value, and the session cookie.
CookieUniverse ==
    { [name |-> CsrfCookieName, value |-> "tok"],
      [name |-> CsrfCookieName, value |-> ""],
      [name |-> "cloud.session.token", value |-> "sess"] }

\* get_csrf_token: the value of the first cookie with the name, else None.
get_csrf_token(cs) ==
    LET hits == { i \in 1..Len(cs) : cs[i].name = CsrfCookieName }
    IN  IF hits = {} THEN None
        ELSE cs[CHOOSE i \in hits : \A j \in hits : i <= j].value

\* What page.evaluate hands back to create_group: the error object of a
\* response that is not ok, or the body of the response.
CreateGroupResults ==
    { [error |-> TRUE, status |-> "409", text |-> "exists"],
      [id |-> "G1"],
      [id |-> "G2"],
      [id |-> ""],
      [name |-> "created"] }

IsError(result) == "error" \in DOMAIN result /\ result.error

\* create_group, from the result of page.evaluate on.
create_group(result) ==
    IF IsError(result) THEN None ELSE Get(result, "id")

\* What page.evaluate hands back to invite_user.
InviteResults ==
    { [ok |-> TRUE, status |-> "200", text |-> ""],
      [ok |-> FALSE, status |-> "400", text |-> "bad"] }

\* What the search that follows an invitation answers.
SearchResponses ==
    { [ok |-> FALSE, status |-> "500", json |-> EmptyDict],
      [ok |-> TRUE, status |-> "200", json |-> EmptyDict],
      [ok |-> TRUE, status |-> "200", json |-> [data |-> <<>>]],
      [ok |-> TRUE, status |-> "200",
       json |-> [data |-> << [account_id |-> "A1"] >>]],
      [ok |-> TRUE, status |-> "200",
       json |-> [data |-> << [account_id |-> "A2"], [account_id |-> "A1"] >>]],
      [ok |-> TRUE, status |-> "200",
       json |-> [data |-> << [account_id |-> ""] >>]],
      [ok |-> TRUE, status |-> "200",
       json |-> [data |-> << [accountId |-> "A1"] >>]] }

\* invite_user, from the result of page.evaluate on.
invite_user(invite_result, search_response) ==
    IF ~invite_result.ok THEN None
    ELSE IF ~search_response.ok THEN None
    ELSE LET search_data == search_response.json
             users_found == IF "data" \in DOMAIN search_data
                            THEN search_data.data ELSE <<>>
         IN  IF users_found = <<>> THEN None
             ELSE Get(users_found[1], "account_id")

\* What page.evaluate hands back to add_user_to_group.
AddResults ==
    { [success |-> TRUE],
      [error |-> TRUE, status |-> "404", text |-> "no group"] }

\* add_user_to_group, from the result of page.evaluate on.
add_user_to_group(result) ==
    IF "success" \in DOMAIN result /\ result.success THEN "True" ELSE "False"

\* One call of an API helper: its arguments and what it returned, "raised"
\* when an exception left it.
Call(fn, a1, a2, token, ret) ==
    [fn |-> fn, a1 |-> a1, a2 |-> a2, token |-> token, ret |-> ret]

\* if not csrf_token: on a cookie jar that is never searched.
CsrfAborts_Never(token) == FALSE

\* if not csrf_token:
CsrfAborts(token) == ~Truthy(token)

\* if target_group_id: left out.
ShouldAssign_NoGroupCheck(uid, target_group_id) == Truthy(uid)

\* if user_id: ... if target_group_id:
ShouldAssign(uid, target_group_id) == Truthy(uid) /\ Truthy(target_group_id)

InitSetup ==
    /\ pc = "setup_try"
    /\ entry = "setup_main"
    /\ IdleFetch
    /\ IdleJoin
    /\ IdleMain
    /\ IdleSetup2
    /\ \E n \in 0..MaxCookies : cookies \in [1..n -> CookieUniverse]
    /\ csrf_token = None
    /\ group_id_map = <<>>
    /\ s_gi = 1
    /\ s_ui = 1
    /\ user_id = None
    /\ calls = <<>>

\* await login(page)
SetupLogin ==
    /\ pc = "setup_try"
    /\ events' = Append(events, "login")
    /\ pc' = "setup_get_csrf"
    /\ UNCHANGED <<entry, fetchVars, joinVars, exc, setupVars, setup2Vars>>

\* csrf_token = await get_csrf_token(page); if not csrf_token: print, return
SetupGetCsrfToken ==
    /\ pc = "setup_get_csrf"
    /\ csrf_token' = get_csrf_token(cookies)
    /\ IF CsrfAborts(csrf_token')
       THEN /\ events' = Append(events, "print_aborting")
            /\ pc' = "setup_finally"
       ELSE /\ events' = events
            /\ pc' = "setup_groups"
    /\ group_id_map' = <<>>
    /\ UNCHANGED <<entry, fetchVars, joinVars, exc, cookies, s_gi, s_ui,
                   user_id, calls, setup2Vars>>

\* group_id_map[group["name"]] = group_id
SetGroupId(map, name, group_id) ==
    [k \in DOMAIN map \cup {name} |-> IF k = name THEN group_id ELSE map[k]]

\* One iteration of for group in GROUPS_TO_CREATE.
SetupCreateGroup ==
    /\ pc = "setup_groups"
    /\ s_gi <= Len(GROUPS_TO_CREATE)
    /\ \E result \in CreateGroupResults :
         LET group == GROUPS_TO_CREATE[s_gi]
             group_id == create_group(result)
         IN  /\ calls' = Append(calls, Call("create_group", group.name,
                                             group.description, csrf_token,
                                             group_id))
             /\ group_id_map' = IF Truthy(group_id)
                                THEN SetGroupId(group_id_map, group.name,
                                                group_id)
                                ELSE group_id_map
    /\ s_gi' = s_gi + 1
    /\ UNCHANGED <<pc, entry, fetchVars, joinVars, mainVars, cookies,
                   csrf_token, s_ui, user_id, setup2Vars>>

\* The first loop is over; for user_info in USERS_TO_INVITE begins.
SetupGroupsDone ==
    /\ pc = "setup_groups"
    /\ s_gi > Len(GROUPS_TO_CREATE)
    /\ pc' = "setup_users"
    /\ UNCHANGED <<entry, fetchVars, joinVars, mainVars, setupVars, setup2Vars>>

\* user_id = await invite_user(page, user_info["email"], csrf_token)
SetupInviteUser ==
    /\ pc = "setup_users"
    /\ s_ui <= Len(USERS_TO_INVITE)
    /\ \E invite_result \in InviteResults, search_response \in SearchResponses :
         /\ user_id' = invite_user(invite_result, search_response)
         /\ calls' = Append(calls, Call("invite_user",
                                         USERS_TO_INVITE[s_ui].email, None,
                                         csrf_token, user_id'))
    /\ pc' = "setup_assign"
    /\ UNCHANGED <<entry, fetchVars, joinVars, mainVars, cookies, csrf_token,
                   group_id_map, s_gi, s_ui, setup2Vars>>

\* if user_id: ... add_user_to_group(...) or the warning; next iteration.
SetupAssign ==
    /\ pc = "setup_assign"
    /\ LET target_group_name == USERS_TO_INVITE[s_ui].group_name
           target_group_id == Get(group_id_map, target_group_name)
       IN  IF ShouldAssign(user_id, target_group_id)
           THEN /\ \E result \in AddResults :
                     calls' = Append(calls, Call("add_user_to_group",
                                                  target_group_id, user_id,
                                                  csrf_token,
                                                  add_user_to_group(result)))
                /\ events' = events
           ELSE /\ calls' = calls
                /\ events' = IF Truthy(user_id)
                             THEN Append(events, "print_warning")
                             ELSE events
    /\ s_ui' = s_ui + 1
    /\ pc' = "setup_users"
    /\ UNCHANGED <<entry, fetchVars, joinVars, exc, cookies, csrf_token,
                   group_id_map, s_gi, user_id, setup2Vars>>

\* print("Setup script finished successfully!")
SetupFinished ==
    /\ pc = "setup_users"
    /\ s_ui > Len(USERS_TO_INVITE)
    /\ events' = Append(events, "print_finished")
    /\ pc' = "setup_finally"
    /\ UNCHANGED <<entry, fetchVars, joinVars, exc, setupVars, setup2Vars>>

\* The call that is running when an await of the try block raises, if it is
\* one of the API helpers.
RaisingCall ==
    CASE pc = "setup_groups" /\ s_gi <= Len(GROUPS_TO_CREATE) ->
             << Call("create_group", GROUPS_TO_CREATE[s_gi].name,
                     GROUPS_TO_CREATE[s_gi].description, csrf_token,
                     "raised") >>
      [] pc = "setup_users" /\ s_ui <= Len(USERS_TO_INVITE) ->
             << Call("invite_user", USERS_TO_INVITE[s_ui].email, None,
                     csrf_token, "raised") >>
      [] pc = "setup_assign"
           /\ ShouldAssign(user_id,
                           Get(group_id_map, USERS_TO_INVITE[s_ui].group_name)) ->
             << Call("add_user_to_group",
                     Get(group_id_map, USERS_TO_INVITE[s_ui].group_name),
                     user_id, csrf_token, "raised") >>
      [] OTHER -> <<>>

\* An await of login, get_csrf_token or an API helper raises.
SetupStepRaises ==
    /\ \/ pc \in {"setup_try", "setup_get_csrf"}
       \/ RaisingCall # <<>>
    /\ \E e \in Exceptions : exc' = e
    /\ calls' = calls \o RaisingCall
    /\ events' = Append(events, "raised")
    /\ pc' = "setup_except"
    /\ UNCHANGED <<entry, fetchVars, joinVars, cookies, csrf_token,
                   group_id_map, s_gi, s_ui, user_id, setup2Vars>>

\* except Exception as e: print(f"A critical error occurred: {e}")
SetupExcept ==
    /\ pc = "setup_except"
    /\ events' = Append(events, "print_critical")
    /\ exc' = None
    /\ pc' = "setup_finally"
    /\ UNCHANGED <<entry, fetchVars, joinVars, setupVars, setup2Vars>>

\* finally: await browser.close()
SetupFinally ==
    /\ pc = "setup_finally"
    /\ events' = Append(events, "browser_close")
    /\ pc' = "setup_done"
    /\ UNCHANGED <<entry, fetchVars, joinVars, exc, setupVars, setup2Vars>>

NextSetup ==
    \/ SetupLogin
    \/ SetupGetCsrfToken
    \/ SetupCreateGroup
    \/ SetupGroupsDone
    \/ SetupInviteUser
    \/ SetupAssign
    \/ SetupFinished
    \/ SetupStepRaises
    \/ SetupExcept
    \/ SetupFinally

SpecSetup == InitSetup /\ [][NextSetup]_vars

----------------------------------------------------------------------------
(* Claims about setup.py, checked under SpecSetup. *)

CallsOf(fn) == { i \in 1..Len(calls) : calls[i].fn = fn }

\* The configured users with the given email.
ConfiguredUsers(email) ==
    { k \in 1..Len(USERS_TO_INVITE) : USERS_TO_INVITE[k].email = email }

\* C11: every call of add_user_to_group directly follows the invite_user
\* call of one configured user, which returned a non-empty account id;
\* create_group, called earlier in the run for the group named by that
\* user's group_name, returned a non-empty id; the call passes exactly these
\* two ids; and no configured user has more than one such call.
C11_AddOnlyWithBothIds ==
    /\ \A i \in CallsOf("add_user_to_group") :
         /\ i > 1
         /\ calls[i - 1].fn = "invite_user"
         /\ Truthy(calls[i - 1].ret)
         /\ calls[i - 1].ret # "raised"
         /\ calls[i].a2 = calls[i - 1].ret
         /\ \E k \in ConfiguredUsers(calls[i - 1].a1) :
              \E h \in CallsOf("create_group") :
                /\ h < i
                /\ calls[h].a1 = USERS_TO_INVITE[k].group_name
                /\ Truthy(calls[h].ret)
                /\ calls[h].ret # "raised"
                /\ calls[i].a1 = calls[h].ret
    /\ \A k \in 1..Len(USERS_TO_INVITE) :
         Cardinality({ j \in CallsOf("invite_user") :
                         calls[j].a1 = USERS_TO_INVITE[k].email }) <= 1
    /\ Cardinality(CallsOf("add_user_to_group"))
         <= Cardinality(CallsOf("invite_user"))

\* A finished run in which the first user was added to the first group, and
\* the second user, whose invitation returned an account id, was not added
\* because the creation of the second group had failed.
C11_Witness ==
    /\ pc = "setup_done"
    /\ Len(calls) = 5
    /\ calls[1].fn = "create_group" /\ calls[1].ret = "G1"
    /\ calls[2].fn = "create_group" /\ calls[2].ret = None
    /\ calls[3].fn = "invite_user" /\ calls[3].ret = "A2"
    /\ calls[4].fn = "add_user_to_group"
    /\ calls[4].a1 = "G1" /\ calls[4].a2 = "A2"
    /\ calls[5].fn = "invite_user" /\ calls[5].ret = "A1"
    /\ Happened("print_warning")

\* The context holds no cookie named atlassian.account.xsrf.token.
NoTokenCookie ==
    \A i \in 1..Len(cookies) : cookies[i].name # CsrfCookieName

\* get_csrf_token has returned to main.
CsrfReturned ==
    pc \notin {"setup_try", "setup_get_csrf"} /\ ~Happened("raised")

\* C12: in a run whose context holds no cookie named
\* atlassian.account.xsrf.token, no call of create_group, invite_user or
\* add_user_to_group is ever made; once get_csrf_token has returned, main
\* has printed the abort message and is at its finally block or past it,
\* without the message of a finished setup; nothing keeps browser.close()
\* from running there, and main ends with the browser closed exactly once.
C12_NoTokenCookieAborts ==
    NoTokenCookie =>
      /\ calls = <<>>
      /\ ~Happened("print_finished")
      /\ CsrfReturned =>
           /\ csrf_token = None
           /\ Count("print_aborting") = 1
           /\ pc \in {"setup_finally", "setup_done"}
      /\ pc = "setup_finally" => ENABLED SetupFinally
      /\ pc = "setup_done" => Count("browser_close") = 1

\* A run has ended whose context held only the session cookie:
\* get_csrf_token returned None, main printed the abort message and closed
\* the browser.
C12_Witness ==
    /\ cookies # <<>>
    /\ NoTokenCookie
    /\ CsrfReturned
    /\ pc = "setup_done"
    /\ Happened("print_aborting")
    /\ Happened("browser_close")
    /\ calls = <<>>

----------------------------------------------------------------------------
(* setup2.py *)

NEW_GROUPS ==
    << [name |-> "Alpha Team", description |-> "Primary development team."],
       [name |-> "Bravo Team", description |-> "Secondary support team."] >>

NEW_USERS ==
    << [email |-> "alpha.user1@example.com", group_name |-> "Alpha Team"],
       [email |-> "bravo.user1@example.com", group_name |-> "Bravo Team"] >>

\* The variables main reads from the environment.
EnvNames == {"ATLASSIAN_EMAIL", "ATLASSIAN_PASSWORD", "ATLASSIAN_ORG_ID"}

\* What the awaits of a try body raise: Playwright's Error and TimeoutError
\* and the AssertionError of expect().
BodyOutcomes == {"ok", "Error", "TimeoutError", "AssertionError"}

\* What page.screenshot does in an except clause.
ScreenshotOutcomes == {"ok", "Error"}

\* How the handling of one item ended: whether its try body ran to the end.
Outcome(kind, name, body) == [kind |-> kind, name |-> name, ok |-> body = "ok"]

InitSetup2 ==
    /\ pc = "setup2_main"
    /\ entry = "setup2_main"
    /\ IdleFetch
    /\ IdleJoin
    /\ IdleMain
    /\ IdleSetup
    /\ env \in SUBSET EnvNames
    /\ item = 1
    /\ outcomes = <<>>

\* if not all([email, password, org_id]): raise ValueError(...)
Setup2CheckEnv ==
    /\ pc = "setup2_main"
    /\ IF env = EnvNames
       THEN /\ pc' = "setup2_aenter"
            /\ exc' = exc
       ELSE /\ pc' = "setup2_propagated"
            /\ exc' = "ValueError"
    /\ UNCHANGED <<entry, fetchVars, joinVars, events, setupVars, setup2Vars>>

\* AtlassianSetup.__aenter__
Setup2Enter ==
    /\ pc = "setup2_aenter"
    /\ events' = Append(events, "browser_launch")
    /\ pc' = "setup2_login"
    /\ UNCHANGED <<entry, fetchVars, joinVars, exc, setupVars, setup2Vars>>

\* await setup.login(), which returns or raises
Setup2Login ==
    /\ pc = "setup2_login"
    /\ \E body \in BodyOutcomes \ {"AssertionError"} :
         IF body = "ok"
         THEN /\ events' = Append(events, "login")
              /\ pc' = "setup2_groups"
              /\ exc' = exc
         ELSE /\ events' = Append(events, "raised")
              /\ pc' = "setup2_except"
              /\ exc' = body
    /\ item' = 1
    /\ UNCHANGED <<entry, fetchVars, joinVars, setupVars, env, outcomes>>

\* One iteration of a per-item loop: the try body runs to its end, or an
\* await in it raises, the except clause prints and takes a screenshot, and
\* the screenshot returns or raises out of the method.
ItemStep(here, kind, name) ==
    \E body \in BodyOutcomes, shot \in ScreenshotOutcomes :
      /\ body = "ok" => shot = "ok"
      /\ outcomes' = Append(outcomes, Outcome(kind, name, body))
      /\ IF shot = "ok"
         THEN /\ events' = Append(events, IF body = "ok" THEN "print_success"
                                                          ELSE "print_could_not")
              /\ item' = item + 1
              /\ pc' = here
              /\ exc' = exc
         ELSE /\ events' = events \o <<"print_could_not", "raised">>
              /\ item' = item
              /\ pc' = "setup2_except"
              /\ exc' = shot

\* create_groups: one iteration of for group in NEW_GROUPS
Setup2CreateGroup ==
    /\ pc = "setup2_groups"
    /\ item <= Len(NEW_GROUPS)
    /\ ItemStep("setup2_groups", "group", NEW_GROUPS[item].name)
    /\ UNCHANGED <<entry, fetchVars, joinVars, setupVars, env>>

\* create_groups returns; await setup.invite_users()
Setup2GroupsDone ==
    /\ pc = "setup2_groups"
    /\ item > Len(NEW_GROUPS)
    /\ item' = 1
    /\ pc' = "setup2_users"
    /\ UNCHANGED <<entry, fetchVars, joinVars, mainVars, setupVars, env,
                   outcomes>>

\* invite_users: one iteration of for user in NEW_USERS
Setup2InviteUser ==
    /\ pc = "setup2_users"
    /\ item <= Len(NEW_USERS)
    /\ ItemStep("setup2_users", "user", NEW_USERS[item].email)
    /\ UNCHANGED <<entry, fetchVars, joinVars, setupVars, env>>

\* invite_users returns; print("Setup complete! All groups and users have
\* been created.")
Setup2Complete ==
    /\ pc = "setup2_users"
    /\ item > Len(NEW_USERS)
    /\ events' = Append(events, "print_complete")
    /\ pc' = "setup2_aexit"
    /\ UNCHANGED <<entry, fetchVars, joinVars, exc, setupVars, setup2Vars>>

\* except Exception as e: print(...); await setup.page.screenshot(...)
Setup2Except ==
    /\ pc = "setup2_except"
    /\ events' = Append(events, "print_error")
    /\ \E shot \in ScreenshotOutcomes :
         exc' = IF shot = "ok" THEN None ELSE shot
    /\ pc' = "setup2_aexit"
    /\ UNCHANGED <<entry, fetchVars, joinVars, setupVars, setup2Vars>>

\* AtlassianSetup.__aexit__; then main returns, or the exception that is
\* still being raised leaves main.
Setup2Exit ==
    /\ pc = "setup2_aexit"
    /\ events' = Append(events, "browser_close")
    /\ pc' = IF exc = None THEN "setup2_done" ELSE "setup2_propagated"
    /\ UNCHANGED <<entry, fetchVars, joinVars, exc, setupVars, setup2Vars>>

NextSetup2 ==
    \/ Setup2CheckEnv
    \/ Setup2Enter
    \/ Setup2Login
    \/ Setup2CreateGroup
    \/ Setup2GroupsDone
    \/ Setup2InviteUser
    \/ Setup2Complete
    \/ Setup2Except
    \/ Setup2Exit

SpecSetup2 == InitSetup2 /\ [][NextSetup2]_vars

----------------------------------------------------------------------------
(* Claims about setup2.py, checked under SpecSetup2. *)

\* The try body of every item handled so far ran to its end.
AllSucceeded == \A i \in 1..Len(outcomes) : outcomes[i].ok

\* C13: the completion message is printed only in runs in which the
\* creation of every group of NEW_GROUPS and the invitation of every user
\* of NEW_USERS succeeded.
C13_CompleteOnlyIfAllSucceeded ==
    Happened("print_complete") =>
      /\ Len(outcomes) = Len(NEW_GROUPS) + Len(NEW_USERS)
      /\ AllSucceeded

====
